---- MODULE Spec2Model ----
(***************************************************************************)
(* Model of frappe/desk/doctype/route_history/route_history.py (the Route  *)
(* History retention job and the deferred log writer) and of               *)
(* frappe/utils/jinja.py (template environment, render_template,           *)
(* component, resolve_class, front-matter split).                          *)
(***************************************************************************)
EXTENDS Integers, Sequences, FiniteSets, TLC

VARIABLES
  table,       \* `tabRoute History`: table[u][t] = number of rows of user u with modified = t
  pc,          \* pc[p]: position of flush run p
  users,       \* users[p]: the rows of the GROUP BY query run p still has to loop over
  last_record_to_keep, \* last_record_to_keep[p]: result list of the boundary lookup
  startTable,  \* the table when the current run of the scheduler issued its first query
  origTable,   \* the table before the first run of the scheduler
  prevRun,     \* how the latest finished run ended
  before,      \* how the run before the current one ended
  session_user,   \* frappe.session.user of the request
  sent,           \* the route entries the caller of deferred_insert_route_history sent
  routes,         \* the argument routes: that list, or its JSON text
  deferred_calls, \* the deferred_insert calls the request has made
  site,           \* the site's flags, hooks and apps
  local,          \* frappe.local: its attributes jenv and jloader
  constructed,    \* how many environments and loaders have been constructed
  call,           \* the call of a function of jinja.py being made: its name and arguments
  result,         \* what the call returned or raised
  engine_ops,     \* what the call asked of the template engine, in order
  parsed          \* what parse_front_matter_attrs_and_html returned or raised in the call

flushVars == <<table, pc, users, last_record_to_keep>>
historyVars == <<startTable, origTable, prevRun, before>>
insertVars == <<session_user, sent, routes, deferred_calls>>

envVars == <<site, local, constructed>>
callVars == <<call, result, engine_ops, parsed>>
jinjaVars == <<envVars, callVars>>

vars == <<flushVars, historyVars, insertVars, jinjaVars>>

nonFlushVars == <<insertVars, jinjaVars>>
nonInsertVars == <<flushVars, historyVars, jinjaVars>>
nonJinjaVars == <<flushVars, historyVars, insertVars>>

--------------------------------------------------------------------------
(* Bounds of the model *)

\* number of distinct modified timestamps
MaxTime == 3
\* most rows one user has with the same modified timestamp
MaxTies == 2
\* the model's value of the 500 of route_history.py
KeepScale == 2

Users == {"u1", "u2"}
Times == 1..MaxTime
Runs == {1, 2}

Tables == [Users -> [Times -> 0..MaxTies]]

--------------------------------------------------------------------------
(* deferred_insert_route_history *)

\* most entries in one call
MaxRoutes == 2

\* Python values: None and strings
None == [t |-> "None", v |-> ""]
Str(s) == [t |-> "str", v |-> s]

SessionUsers == {"alice", "bob"}
FieldValues == {Str("alice"), Str("/app")}
EntryKeys == {"user", "route", "creation"}

\* a route entry: a dict with any of the keys
RouteDocs == UNION {[ks -> FieldValues] : ks \in SUBSET EntryKeys}

RouteLists == UNION {[1..n -> RouteDocs] : n \in 0..MaxRoutes}

\* JSON text, as its tokens
Tok(kind, text) == [tok |-> kind, text |-> text]

\* the order json.dumps writes the keys of a dict in
KeyOrder == <<"user", "route", "creation">>

JsonValue(x) == IF x = None THEN Tok("null", "") ELSE Tok("string", x.v)

RECURSIVE JsonMembers(_, _)
JsonMembers(d, i) ==
  IF i > Len(KeyOrder) THEN <<>>
  ELSE (IF KeyOrder[i] \in DOMAIN d
        THEN <<Tok("key", KeyOrder[i]), JsonValue(d[KeyOrder[i]])>>
        ELSE <<>>) \o JsonMembers(d, i + 1)

JsonObject(d) == <<Tok("{", "")>> \o JsonMembers(d, 1) \o <<Tok("}", "")>>

RECURSIVE JsonElements(_, _)
JsonElements(list, i) ==
  IF i > Len(list) THEN <<>> ELSE JsonObject(list[i]) \o JsonElements(list, i + 1)

\* json.dumps of a list of dicts
JsonDumps(list) == <<Tok("[", "")>> \o JsonElements(list, 1) \o <<Tok("]", "")>>

PyValue(tk) == IF tk.tok = "null" THEN None ELSE Str(tk.text)

\* the members of one object, read from token i on: the dict and the position after "}"
RECURSIVE LoadMembers(_, _, _)
LoadMembers(toks, i, d) ==
  IF toks[i].tok = "}" THEN [value |-> d, next |-> i + 1]
  ELSE LoadMembers(toks, i + 2,
         [k \in DOMAIN d \cup {toks[i].text} |->
            IF k = toks[i].text THEN PyValue(toks[i + 1]) ELSE d[k]])

RECURSIVE LoadElements(_, _, _)
LoadElements(toks, i, list) ==
  IF toks[i].tok = "]" THEN list
  ELSE LET obj == LoadMembers(toks, i + 1, <<>>)
       IN  LoadElements(toks, obj.next, Append(list, obj.value))

\* json.loads of the text of a list of dicts
JsonLoads(toks) == LoadElements(toks, 2, <<>>)

IsStr(x) == x.type = "str"

\* dict.get(key): None for a missing key
Get(d, key) == IF key \in DOMAIN d THEN d[key] ELSE None

\* the record with the user the caller supplied, when there is one
RouteRecord_TrustsCaller(route_doc, user) ==
  [user |-> IF "user" \in DOMAIN route_doc THEN route_doc["user"] ELSE Str(user),
   route |-> Get(route_doc, "route"),
   creation |-> Get(route_doc, "creation")]

\* lines 51-55: the record appended for one entry
RouteRecord(route_doc, user) ==
  [user |-> Str(user),
   route |-> Get(route_doc, "route"),
   creation |-> Get(route_doc, "creation")]

\* lines 45-55: routes_record, built by the loop over routes
RECURSIVE RoutesRecord(_, _, _)
RoutesRecord(list, i, user) ==
  IF i > Len(list) THEN <<>>
  ELSE <<RouteRecord(list[i], user)>> \o RoutesRecord(list, i + 1, user)

\* a request: the session user and the entries, passed as a list or as JSON text
Request ==
  /\ session_user \in SessionUsers
  /\ sent \in RouteLists
  /\ \E as_json \in BOOLEAN :
       routes = IF as_json THEN [type |-> "str", value |-> JsonDumps(sent)]
                ELSE [type |-> "list", value |-> sent]
  /\ deferred_calls = <<>>

\* deferred_insert_route_history(routes), lines 44-57
DeferredInsertRouteHistory ==
  /\ deferred_calls = <<>>
  /\ LET decoded == IF IsStr(routes) THEN JsonLoads(routes.value) ELSE routes.value
         routes_record == RoutesRecord(decoded, 1, session_user)
     IN  deferred_calls' =
           Append(deferred_calls,
                  [doctype |-> "Route History", records |-> JsonDumps(routes_record)])
  /\ UNCHANGED <<session_user, sent, routes>>

InsertQuiet ==
  /\ session_user = "alice"
  /\ sent = <<>>
  /\ routes = [type |-> "list", value |-> <<>>]
  /\ deferred_calls = <<>>

--------------------------------------------------------------------------
(* jinja.py: strings and Python values *)

\* most nodes (scalars, lists, dicts and dict entries) in one class value
MaxNodes == 4

\* strings are sequences of characters
Whitespace == {" ", "\n", "\t"}

RECURSIVE LStrip(_)
LStrip(s) == IF s # <<>> /\ Head(s) \in Whitespace THEN LStrip(Tail(s)) ELSE s

RECURSIVE RStrip(_)
RStrip(s) ==
  IF s # <<>> /\ s[Len(s)] \in Whitespace THEN RStrip(SubSeq(s, 1, Len(s) - 1)) ELSE s

\* str.strip()
Strip(s) == RStrip(LStrip(s))

\* ' '.join(parts)
RECURSIVE Join(_)
Join(parts) ==
  IF parts = <<>> THEN <<>>
  ELSE IF Len(parts) = 1 THEN parts[1]
  ELSE parts[1] \o <<" ">> \o Join(Tail(parts))

\* sub in s
Contains(s, sub) ==
  \E i \in 1..(Len(s) - Len(sub) + 1) : SubSeq(s, i, i + Len(sub) - 1) = sub

\* s.startswith(prefix)
StartsWith(s, prefix) == Len(s) >= Len(prefix) /\ SubSeq(s, 1, Len(prefix)) = prefix

\* Python values, tagged with their type
PyNone == [t |-> "None", v |-> <<>>]
PyStr(chars) == [t |-> "str", v |-> chars]
PyInt(digits) == [t |-> "int", v |-> <<digits>>]
PyList(items) == [t |-> "list", v |-> items]
PyTuple(items) == [t |-> "tuple", v |-> items]
PyDict(pairs) == [t |-> "dict", v |-> pairs]
PyRaise(exception) == [t |-> "raise", v |-> <<exception>>]

\* bool(x)
Truthy(x) == IF x.t = "int" THEN x.v # <<"0">> ELSE x.v # <<>>

\* the strings among the class values: "", "a", " " and " a"
ClassStrings == {<<>>, <<"a">>, <<" ">>, <<" ", "a">>}
Scalars == {PyNone, PyInt("7")} \cup {PyStr(cs) : cs \in ClassStrings}
DictKeys == {PyStr(<<"a">>), PyStr(<<" ">>), PyInt("7")}
DictValues == {PyNone, PyInt("7"), PyStr(<<>>), PyStr(<<"a">>)}

\* the dicts of n entries, keys distinct, in insertion order
DictsOfLen(n) ==
  {PyDict(e) : e \in {f \in [1..n -> DictKeys \X DictValues] :
                        \A i, j \in 1..n : i # j => f[i][1] # f[j][1]}}

RECURSIVE ValuesOfSize(_)
RECURSIVE ItemsOfSize(_)

\* the sequences of values of n nodes in all
ItemsOfSize(n) ==
  IF n = 0 THEN {<<>>}
  ELSE UNION {{<<x>> \o rest : x \in ValuesOfSize(k), rest \in ItemsOfSize(n - k)} :
               k \in 1..n}

\* the values of n nodes: a scalar is one node, a list 1 + its items, a dict 1 + its entries
ValuesOfSize(n) ==
  (IF n = 1 THEN Scalars ELSE {})
    \cup {PyList(items) : items \in ItemsOfSize(n - 1)}
    \cup DictsOfLen(n - 1)

ListLike(x) == IF x.t = "list" THEN {x, PyTuple(x.v)} ELSE {x}

\* the arguments resolve_class is called with
ClassValues == UNION {ListLike(x) : x \in UNION {ValuesOfSize(n) : n \in 1..MaxNodes}}

--------------------------------------------------------------------------
(* resolve_class *)

\* every key of the mapping, whatever its value
DictClassNames_AllKeys(classes) == [i \in 1..Len(classes.v) |-> classes.v[i][1]]

\* line 205: [classname for classname in classes if classes[classname]]
DictClassNames(classes) ==
  LET keep == {i \in 1..Len(classes.v) : Truthy(classes.v[i][2])}
      nth(k) == CHOOSE i \in keep : Cardinality({j \in keep : j < i}) = k - 1
  IN  [k \in 1..Cardinality(keep) |-> classes.v[nth(k)][1]]

\* ' '.join(items).strip(): TypeError when an item is not a string
JoinStrip(items) ==
  IF \E i \in 1..Len(items) : items[i].t = "raise"
    THEN items[CHOOSE i \in 1..Len(items) :
                 items[i].t = "raise" /\ \A j \in 1..(i - 1) : items[j].t # "raise"]
  ELSE IF \E i \in 1..Len(items) : items[i].t # "str" THEN PyRaise("TypeError")
  ELSE PyStr(Strip(Join([i \in 1..Len(items) |-> items[i].v])))

\* resolve_class(classes), lines 192-207: the value returned, or the exception raised
RECURSIVE resolve_class(_)
resolve_class(classes) ==
  IF classes.t = "None" THEN PyStr(<<>>)
  ELSE IF classes.t = "str" THEN classes
  ELSE IF classes.t \in {"list", "tuple"}
    THEN JoinStrip([i \in 1..Len(classes.v) |-> resolve_class(classes.v[i])])
  ELSE IF classes.t = "dict" THEN JoinStrip(DictClassNames(classes))
  ELSE classes

Outcome(x) ==
  IF x.t = "raise" THEN [kind |-> "raise", value |-> x] ELSE [kind |-> "return", value |-> x]

NoCall == [op |-> "none"]
Pending == [kind |-> "pending", value |-> PyNone]

\* a template calls resolve_class(classes)
CallResolveClass ==
  /\ call.op = "resolve_class"
  /\ result = Pending
  /\ result' = Outcome(resolve_class(call.classes))
  /\ UNCHANGED <<envVars, call, engine_ops, parsed>>

--------------------------------------------------------------------------
(* get_jenv, get_jloader, set_filters, get_jenv_customization *)

\* a call is started only while get_jenv has been called fewer times than this
MaxGetJenvCalls == 3

\* s.split(sep): the parts of s between the separators
RECURSIVE Split(_, _)
Split(s, sep) ==
  IF \A i \in 1..Len(s) : s[i] # sep THEN <<s>>
  ELSE LET i == CHOOSE k \in 1..Len(s) : s[k] = sep /\ \A j \in 1..(k - 1) : s[j] # sep
       IN  <<SubSeq(s, 1, i - 1)>> \o Split(SubSeq(s, i + 1, Len(s)), sep)

\* the dotted paths frappe.get_attr resolves
Resolvable == {<<"m">>}

\* the values of the hook jenv for one customization type: none, "f:m", "f", "f:z"
HookValues == {<<>>, << <<"f", ":", "m">> >>, << <<"f">> >>, << <<"f", ":", "z">> >>}

Sites ==
  [in_setup_help : BOOLEAN,
   has_site : BOOLEAN,
   template_apps : {<<>>, <<"erpnext">>},
   web_pages_apps : {<<>>, <<"frappe", "blog">>},
   installed_apps : {<<"frappe", "erpnext">>},
   jenv_filters : HookValues,
   jenv_methods : HookValues]

DefaultSite ==
  [in_setup_help |-> FALSE, has_site |-> TRUE, template_apps |-> <<>>,
   web_pages_apps |-> <<>>, installed_apps |-> <<"frappe", "erpnext">>,
   jenv_filters |-> <<>>, jenv_methods |-> <<>>]

Reverse(list) == [i \in 1..Len(list) |-> list[Len(list) + 1 - i]]

InList(x, list) == \E i \in 1..Len(list) : list[i] = x

\* lines 105-114: the apps whose templates are searched, in order
TemplateApps(st) ==
  LET hooked == st.template_apps
      apps == IF st.in_setup_help THEN <<"frappe">>
              ELSE IF hooked # <<>> THEN hooked
              ELSE Reverse(IF st.web_pages_apps # <<>> THEN st.web_pages_apps
                           ELSE st.installed_apps)
  IN  IF ~InList("frappe", apps) THEN Append(apps, "frappe") ELSE apps

\* lines 116-124: the prefixed lookup by app name, then the flat lookup app by app
ChoiceLoader(apps) ==
  [t |-> "ChoiceLoader", prefix |-> {apps[i] : i \in 1..Len(apps)}, flat |-> apps]

\* get_jloader(), lines 100-126, on e = [local, constructed]
get_jloader(e, st) ==
  IF e.local.jloader.t # "None" THEN e
  ELSE [local |-> [e.local EXCEPT !.jloader = ChoiceLoader(TemplateApps(st))],
        constructed |-> [e.constructed EXCEPT !.jloader = @ + 1]]

\* fn_name, fn_string = parts; frappe.get_attr(fn_string)
Registered(parts) ==
  IF Len(parts) # 2 THEN [raised |-> "ValueError", name |-> <<>>]
  ELSE IF parts[2] \notin Resolvable THEN [raised |-> "AttributeError", name |-> <<>>]
  ELSE [raised |-> "", name |-> parts[1]]

\* lines 163-164 for one value: the name registered, or the exception raised
Customize(value) == Registered(Split(value, ":"))

\* the loop of lines 162-164 over the customized values: the first exception, or
\* the names
Collected(customized) ==
  IF \E i \in 1..Len(customized) : customized[i].raised # ""
    THEN [raised |-> customized[CHOOSE i \in 1..Len(customized) :
                       /\ customized[i].raised # ""
                       /\ \A j \in 1..(i - 1) : customized[j].raised = ""].raised,
          names |-> {}]
  ELSE [raised |-> "", names |-> {customized[i].name : i \in 1..Len(customized)}]

\* get_jenv_customization(customization_type), lines 149-166
get_jenv_customization(st, values) ==
  IF ~st.has_site \/ values = <<>> THEN [raised |-> "", names |-> {}]
  ELSE Collected([i \in 1..Len(values) |-> Customize(values[i])])

\* lines 133-141
FixedFilters ==
  {<<"global_date_format">>, <<"markdown">>, <<"json">>, <<"get_shade">>, <<"len">>,
   <<"int">>, <<"str">>, <<"flt">>, <<"abs_url">>}

\* line 146: jenv.filters.update(...)
FiltersUpdated(custom) == [raised |-> custom.raised, names |-> FixedFilters \cup custom.names]

\* set_filters(jenv), lines 128-146
set_filters(st) ==
  IF st.in_setup_help THEN [raised |-> "", names |-> FixedFilters]
  ELSE FiltersUpdated(get_jenv_customization(st, st.jenv_filters))

\* lines 20-27: the names of get_safe_globals(), then the four helpers
JenvGlobals == {<<"frappe">>, <<"component">>, <<"c">>, <<"resolve_class">>, <<"inspect">>}

\* lines 14-29, on l = [local, constructed] after get_jloader(): the environment is
\* constructed, and stored unless registering its filters or globals raises
BuildJenv(l, filters, methods) ==
  IF filters.raised # "" \/ methods.raised # ""
    THEN [local |-> l.local,
          constructed |-> [l.constructed EXCEPT !.jenv = @ + 1, !.calls = @ + 1],
          raised |-> IF filters.raised # "" THEN filters.raised ELSE methods.raised]
  ELSE [local |-> [l.local EXCEPT !.jenv =
                     [t |-> "SandboxedEnvironment", serial |-> l.constructed.jenv + 1,
                      loader |-> l.local.jloader, filters |-> filters.names,
                      globals |-> methods.names \cup JenvGlobals]],
        constructed |-> [l.constructed EXCEPT !.jenv = @ + 1, !.calls = @ + 1],
        raised |-> ""]

\* the environment is built again on every call
get_jenv_Rebuilds(e, st) ==
  BuildJenv(get_jloader(e, st), set_filters(st),
            get_jenv_customization(st, st.jenv_methods))

\* get_jenv(), lines 5-31, on e = [local, constructed]: the new frappe.local, the
\* constructions and calls counted, and the exception raised, if any
get_jenv(e, st) ==
  IF e.local.jenv.t # "None"
    THEN [local |-> e.local, constructed |-> [e.constructed EXCEPT !.calls = @ + 1],
          raised |-> ""]
  ELSE BuildJenv(get_jloader(e, st), set_filters(st),
                 get_jenv_customization(st, st.jenv_methods))

\* frappe.local before the first call
FreshLocal == [jenv |-> PyNone, jloader |-> PyNone]

Env == [local |-> local, constructed |-> constructed]

EnvQuiet ==
  /\ site = DefaultSite
  /\ local = FreshLocal
  /\ constructed = [jenv |-> 0, jloader |-> 0, calls |-> 0]

--------------------------------------------------------------------------
(* render_template, guess_is_path *)

\* longest template string
MaxTemplateLen == 6

TemplateChars == {".", "_", "p", "y", "\n"}
Templates == UNION {[1..n -> TemplateChars] : n \in 0..MaxTemplateLen}

\* what the template engine does with the template: it works, the template (or one
\* it includes) is not found, it does not compile, or rendering fails
EngineOutcomes == {"ok", "not_found", "syntax_error", "render_error"}

Extensions == {<<"h", "t", "m", "l">>, <<"c", "s", "s">>, <<"s", "c", "s", "s">>, <<"p", "y">>}

\* guess_is_path(template), lines 89-97
guess_is_path(template) ==
  IF ~Contains(template, <<"\n">>) /\ Contains(template, <<".">>)
    THEN LET parts == Split(template, ".")
             extn == parts[Len(parts)]
         IN  extn \in Extensions
  ELSE FALSE

Return_(value) == [kind |-> "return", value |-> value]
Raise(exception) == [kind |-> "raise", value |-> PyRaise(exception)]
Rendered(source) == [t |-> "rendered", v |-> source]

\* what a call leaves: frappe.local, the constructions, its result, the engine's work
Done(e, res, ops) ==
  [local |-> e.local, constructed |-> e.constructed, result |-> res, ops |-> ops]

\* .get_template(template).render(context) on the environment j
PathRendered(j, template, eng) ==
  IF j.raised # "" THEN Done(j, Raise(j.raised), <<"get_jenv">>)
  ELSE IF eng = "not_found"
    THEN Done(j, Raise("TemplateNotFound"), <<"get_jenv", "get_template">>)
  ELSE IF eng = "syntax_error"
    THEN Done(j, Raise("TemplateSyntaxError"), <<"get_jenv", "get_template">>)
  ELSE IF eng = "render_error"
    THEN Done(j, Raise("TemplateError"), <<"get_jenv", "get_template", "render">>)
  ELSE Done(j, Return_(Rendered(template)), <<"get_jenv", "get_template", "render">>)

\* line 80: get_jenv().get_template(template).render(context)
RenderPath(e, st, template, eng) == PathRendered(get_jenv(e, st), template, eng)

\* .from_string(template).render(context) on the environment j, any TemplateError
\* rethrown by frappe.throw
StringRendered(j, template, eng) ==
  IF j.raised # "" THEN Done(j, Raise(j.raised), <<"get_jenv">>)
  ELSE IF eng = "syntax_error"
    THEN Done(j, Raise("Jinja Template Error"), <<"get_jenv", "from_string">>)
  ELSE IF eng \in {"not_found", "render_error"}
    THEN Done(j, Raise("Jinja Template Error"), <<"get_jenv", "from_string", "render">>)
  ELSE Done(j, Return_(Rendered(template)), <<"get_jenv", "from_string", "render">>)

\* lines 84-87
RenderString(e, st, template, eng) == StringRendered(get_jenv(e, st), template, eng)

\* the check for ".__" left out
render_template_Unchecked(e, st, template, is_path, safe_render, eng) ==
  IF template = <<>> THEN Done(e, Return_(PyStr(<<>>)), <<>>)
  ELSE IF is_path \/ guess_is_path(template) THEN RenderPath(e, st, template, eng)
  ELSE RenderString(e, st, template, eng)

\* render_template(template, context, is_path, safe_render), lines 64-87
render_template(e, st, template, is_path, safe_render, eng) ==
  IF template = <<>> THEN Done(e, Return_(PyStr(<<>>)), <<>>)
  ELSE IF is_path \/ guess_is_path(template) THEN RenderPath(e, st, template, eng)
  ELSE IF safe_render /\ Contains(template, <<".", "_", "_">>)
    THEN Done(e, Raise("Illegal template"), <<>>)
  ELSE RenderString(e, st, template, eng)

\* a call has been started and not made yet
CanCall == call.op # "none" /\ result = Pending

Finish(done) ==
  /\ local' = done.local
  /\ constructed' = done.constructed
  /\ result' = done.result
  /\ engine_ops' = done.ops

CallRenderTemplate ==
  /\ CanCall
  /\ call.op = "render_template"
  /\ \E eng \in EngineOutcomes :
       Finish(render_template(Env, site, call.template, call.is_path, call.safe_render, eng))
  /\ UNCHANGED <<site, call, parsed>>

RenderTemplateCalls(templates) ==
  [op : {"render_template"}, template : templates, is_path : BOOLEAN, safe_render : BOOLEAN]

--------------------------------------------------------------------------
(* get_template, get_email_from_template, validate_template, inspect *)

\* .get_template(path) on the environment j
TemplateGot(j, path, eng) ==
  IF j.raised # "" THEN Done(j, Raise(j.raised), <<"get_jenv">>)
  ELSE IF eng = "not_found"
    THEN Done(j, Raise("TemplateNotFound"), <<"get_jenv", "get_template">>)
  ELSE IF eng = "syntax_error"
    THEN Done(j, Raise("TemplateSyntaxError"), <<"get_jenv", "get_template">>)
  ELSE Done(j, Return_([t |-> "Template", v |-> path]), <<"get_jenv", "get_template">>)

\* get_template(path), lines 33-34
get_template(e, st, path, eng) == TemplateGot(get_jenv(e, st), path, eng)

\* .render(args) on the template got
TemplateRendered(got, path, eng) ==
  IF got.result.kind = "raise" THEN got
  ELSE IF eng = "render_error"
    THEN Done(got, Raise("TemplateError"), Append(got.ops, "render"))
  ELSE Done(got, Return_(Rendered(path)), Append(got.ops, "render"))

\* get_template(path).render(args)
GetAndRender(e, st, path, eng) ==
  TemplateRendered(get_template(e, st, path, IF eng = "render_error" THEN "ok" ELSE eng),
                   path, eng)

\* lines 45-50: a text template that is not found gives None
EmailReturned(message, text) ==
  IF text.result = Raise("TemplateNotFound")
    THEN Done(text, Return_(PyTuple(<<message.result.value, PyNone>>)),
              message.ops \o text.ops)
  ELSE IF text.result.kind = "raise" THEN Done(text, text.result, message.ops \o text.ops)
  ELSE Done(text, Return_(PyTuple(<<message.result.value, text.result.value>>)),
            message.ops \o text.ops)

\* lines 40-46: a failure of the html template propagates
EmailText(message, st, name, eng_txt) ==
  IF message.result.kind = "raise" THEN message
  ELSE EmailReturned(message,
         GetAndRender(message, st, <<"templates/emails/">> \o name \o <<".txt">>, eng_txt))

\* get_email_from_template(name, args), lines 36-50
get_email_from_template(e, st, name, eng_html, eng_txt) ==
  EmailText(GetAndRender(e, st, <<"templates/emails/">> \o name \o <<".html">>, eng_html),
            st, name, eng_txt)

\* lines 58-62 on the environment j
Validated(j, eng) ==
  IF j.raised # "" THEN Done(j, Raise(j.raised), <<"get_jenv">>)
  ELSE IF eng = "syntax_error"
    THEN Done(j, Raise("Syntax error in template"), <<"get_jenv", "from_string">>)
  ELSE Done(j, Return_(PyNone), <<"get_jenv", "from_string">>)

\* validate_template(html), lines 52-62
validate_template(e, st, html, eng) == Validated(get_jenv(e, st), eng)

\* .from_string(html).render(context) on the environment j, nothing caught
FromStringRendered(j, html, context, eng) ==
  IF j.raised # "" THEN Done(j, Raise(j.raised), <<"get_jenv">>)
  ELSE IF eng = "syntax_error"
    THEN Done(j, Raise("TemplateSyntaxError"), <<"get_jenv", "from_string">>)
  ELSE IF eng = "not_found"
    THEN Done(j, Raise("TemplateNotFound"), <<"get_jenv", "from_string", "render">>)
  ELSE IF eng = "render_error"
    THEN Done(j, Raise("TemplateError"), <<"get_jenv", "from_string", "render">>)
  ELSE Done(j, Return_([t |-> "rendered", v |-> html, context |-> context]),
            <<"get_jenv", "from_string", "render">>)

\* get_jenv().from_string(html).render(context)
FromStringRender(e, st, html, context, eng) ==
  FromStringRendered(get_jenv(e, st), html, context, eng)

\* inspect(var, render), lines 228-234
inspect(e, st, var, render, eng) ==
  FromStringRender(e, st,
                   IF render THEN <<"<pre>{{ var | pprint | e }}</pre>">> ELSE <<>>,
                   [k \in {"var"} |-> var], eng)

--------------------------------------------------------------------------
(* component, parse_front_matter_attrs_and_html *)

\* longest source of a component
MaxSourceLen == 4

\* what Frontmatter.read does with a source: it raises, or it returns attributes
\* (none, when it finds no front matter) and a body, the rest of the source
FrontmatterReads(source) ==
  {[raised |-> TRUE, attributes |-> <<>>, body |-> <<>>]}
    \cup [raised : {FALSE},
          attributes : {<<>>, [k \in {"class"} |-> PyStr(<<"a">>)],
                        [k \in {"class", "title"} |-> PyList(<<PyInt("7")>>)]},
          body : {SubSeq(source, i, Len(source)) : i \in 1..(Len(source) + 1)}]

\* 'Error parsing Frontmatter in template: ' + e, with e an exception: TypeError
ConcatStrException == PyRaise("TypeError")

\* lines 223-224: the handler of a failure of Frontmatter.read
FrontmatterFailed(source) ==
  [kind |-> "raise", attributes |-> <<>>, html |-> source, printed |-> FALSE,
   value |-> ConcatStrException]

\* parse_front_matter_attrs_and_html(source), lines 209-226
parse_front_matter_attrs_and_html(source, res) ==
  IF ~StartsWith(source, <<"-", "-", "-">>)
    THEN [kind |-> "return", attributes |-> <<>>, html |-> source, printed |-> FALSE,
          value |-> PyNone]
  ELSE IF res.raised THEN FrontmatterFailed(source)
  ELSE IF res.attributes # <<>>
    THEN [kind |-> "return", attributes |-> res.attributes, html |-> res.body,
          printed |-> FALSE, value |-> PyNone]
  ELSE [kind |-> "return", attributes |-> <<>>, html |-> source, printed |-> FALSE,
        value |-> PyNone]

\* context.update(attributes); context.update(kwargs)
Updated(attributes, kwargs) ==
  [k \in DOMAIN attributes \cup DOMAIN kwargs |->
     IF k \in DOMAIN kwargs THEN kwargs[k] ELSE attributes[k]]

WithClass(context, class) ==
  [k \in DOMAIN context \cup {"class"} |-> IF k = "class" THEN class ELSE context[k]]

NotParsed == [kind |-> "pending", attributes |-> <<>>, html |-> <<>>, printed |-> FALSE,
              value |-> PyNone]

\* line 190: the body rendered with the context
ComponentRendered(r, split) ==
  [done |-> Done(r, r.result, <<"get_jenv", "get_source">> \o r.ops), parsed |-> split]

\* lines 185-190: resolve_class may raise
ComponentClass(j, st, split, context, class, eng) ==
  IF class.t = "raise"
    THEN [done |-> Done(j, Outcome(class), <<"get_jenv", "get_source">>), parsed |-> split]
  ELSE ComponentRendered(FromStringRender(j, st, split.html, WithClass(context, class), eng),
                         split)

\* lines 181-188
ComponentContext(j, st, split, context, eng) ==
  ComponentClass(j, st, split, context,
                 IF "class" \in DOMAIN context THEN resolve_class(context["class"])
                 ELSE PyStr(<<>>),
                 eng)

\* line 180: what the front-matter split raises propagates
ComponentSplit(j, st, kwargs, split, eng) ==
  IF split.kind = "raise"
    THEN [done |-> Done(j, Outcome(split.value), <<"get_jenv", "get_source">>),
          parsed |-> split]
  ELSE ComponentContext(j, st, split, Updated(split.attributes, kwargs), eng)

\* lines 175-180 on the environment j
ComponentLoaded(j, st, name, kwargs, found, source, res, eng) ==
  IF j.raised # ""
    THEN [done |-> Done(j, Raise(j.raised), <<"get_jenv">>), parsed |-> NotParsed]
  ELSE IF ~found
    THEN [done |-> Done(j, Return_(PyStr(<<"<pre>Component \"">> \o name
                                          \o <<"\" not found</pre>">>)),
                        <<"get_jenv", "get_source">>),
          parsed |-> NotParsed]
  ELSE ComponentSplit(j, st, kwargs, parse_front_matter_attrs_and_html(source, res), eng)

\* component(name, **kwargs), lines 169-190: what the call leaves, and what the
\* front-matter split returned
component(e, st, name, kwargs, found, source, res, eng) ==
  ComponentLoaded(get_jenv(e, st), st, name, kwargs, found, source, res, eng)

ComponentSources == UNION {[1..n -> {"-", "h"}] : n \in 0..MaxSourceLen}

ComponentKwargs ==
  {<<>>, [k \in {"class"} |-> PyList(<<PyStr(<<"b">>), PyNone>>)],
   [k \in {"title"} |-> PyStr(<<"t">>)]}

ComponentCalls(sources) ==
  UNION {[op : {"component"}, name : {<<"b", "t", "n">>}, kwargs : ComponentKwargs,
          found : BOOLEAN, source : {source}, read : FrontmatterReads(source)] :
         source \in sources}

FinishComponent(c) == Finish(c.done) /\ parsed' = c.parsed

CallComponent ==
  /\ CanCall
  /\ call.op = "component"
  /\ \E eng \in EngineOutcomes :
       FinishComponent(component(Env, site, call.name, call.kwargs, call.found,
                                 call.source, call.read, eng))
  /\ UNCHANGED <<site, call>>

CallGetTemplate ==
  /\ CanCall
  /\ call.op = "get_template"
  /\ \E eng \in EngineOutcomes \ {"render_error"} :
       Finish(get_template(Env, site, call.path, eng))
  /\ UNCHANGED <<site, call, parsed>>

CallGetEmailFromTemplate ==
  /\ CanCall
  /\ call.op = "get_email_from_template"
  /\ \E eng_html, eng_txt \in EngineOutcomes :
       Finish(get_email_from_template(Env, site, call.name, eng_html, eng_txt))
  /\ UNCHANGED <<site, call, parsed>>

CallValidateTemplate ==
  /\ CanCall
  /\ call.op = "validate_template"
  /\ \E eng \in {"ok", "syntax_error"} : Finish(validate_template(Env, site, call.html, eng))
  /\ UNCHANGED <<site, call, parsed>>

CallInspect ==
  /\ CanCall
  /\ call.op = "inspect"
  /\ \E eng \in {"ok", "render_error"} :
       Finish(inspect(Env, site, call.var, call.render, eng))
  /\ UNCHANGED <<site, call, parsed>>

\* the calls a process makes one after the other
ProcessCalls ==
  RenderTemplateCalls({<<"a", ".", "p", "y">>, <<"a", ".", "_", "_", "b">>})
    \cup {c \in ComponentCalls({<<"-", "-", "-", "h">>}) :
            c.kwargs = <<>> /\ c.read.body \in {<<>>, <<"h">>}}
    \cup [op : {"get_template"}, path : {<<"a", ".", "p", "y">>}]
    \cup [op : {"get_email_from_template"}, name : {<<"new_user">>}]
    \cup [op : {"validate_template"}, html : {<<"{", "{", "a", "}", "}">>}]
    \cup [op : {"inspect"}, var : {PyNone}, render : BOOLEAN]

\* the next call of the process starts
StartCall ==
  /\ call.op = "none" \/ result # Pending
  /\ constructed.calls < MaxGetJenvCalls
  /\ call' \in ProcessCalls
  /\ result' = Pending
  /\ engine_ops' = <<>>
  /\ parsed' = NotParsed
  /\ UNCHANGED envVars

JinjaQuiet ==
  /\ EnvQuiet
  /\ call = NoCall
  /\ result = Pending
  /\ engine_ops = <<>>
  /\ parsed = NotParsed

--------------------------------------------------------------------------
(* flush_old_route_records *)

\* route_history.py:18; 500 in the source, KeepScale here
records_to_keep_limit == KeepScale

\* a lookup one row too early: limit_start=499
limit_start_OneLess == KeepScale - 1

\* a lookup one row too late: limit_start=501
limit_start_OneMore == KeepScale + 1

\* route_history.py:33, the literal 500 again
limit_start == KeepScale

RECURSIVE SumUpTo(_, _)
SumUpTo(f, n) == IF n = 0 THEN 0 ELSE f[n] + SumUpTo(f, n - 1)

\* count(`name`) of the rows of one user
CountRows(tbl, u) == SumUpTo(tbl[u], MaxTime)

Repeat(x, n) == [i \in 1..n |-> x]

\* the modified values of u's rows, ORDER BY modified desc
RECURSIVE ModifiedFrom(_, _, _)
ModifiedFrom(tbl, u, t) ==
  IF t = 0 THEN <<>>
  ELSE Repeat(t, tbl[u][t]) \o ModifiedFrom(tbl, u, t - 1)

OrderByModifiedDesc(tbl, u) == ModifiedFrom(tbl, u, MaxTime)

\* SELECT user ... GROUP BY user HAVING count(name) > limit
HavingCount(tbl) == {u \in Users : CountRows(tbl, u) > records_to_keep_limit}

\* the result rows of that query, in any order the database returns them
Orderings(S) ==
  {s \in [1..Cardinality(S) -> S] : \A i, j \in 1..Cardinality(S) : i # j => s[i] # s[j]}

\* frappe.db.get_all(..., limit=1, limit_start=500, order_by='modified desc')
GetAllBoundary(tbl, u) ==
  LET rows == OrderByModifiedDesc(tbl, u)
  IN  SubSeq(rows, limit_start + 1, IF Len(rows) > limit_start THEN limit_start + 1 ELSE limit_start)

\* the filter with < for <=
DeleteFilter_Strict(row_user, row_modified, u, boundary) ==
  row_modified < boundary /\ row_user = u

\* the filter without the user condition
DeleteFilter_AnyUser(row_user, row_modified, u, boundary) ==
  row_modified <= boundary

\* the filter of frappe.db.delete: modified <= boundary and user = user
DeleteFilter(row_user, row_modified, u, boundary) ==
  row_modified <= boundary /\ row_user = u

\* frappe.db.delete("Route History", {...})
DbDelete(tbl, u, boundary) ==
  [v \in Users |-> [t \in Times |->
     IF DeleteFilter(v, t, u, boundary) THEN 0 ELSE tbl[v][t]]]

\* the whole of flush_old_route_records on table tbl, the users taken in order us
RECURSIVE FlushLoop(_, _)
FlushLoop(tbl, us) ==
  IF us = <<>> THEN tbl
  ELSE LET found == GetAllBoundary(tbl, Head(us))
       IN  IF found = <<>> THEN tbl
           ELSE FlushLoop(DbDelete(tbl, Head(us), found[1]), Tail(us))

FlushResults(tbl) == {FlushLoop(tbl, us) : us \in Orderings(HavingCount(tbl))}

Idle(p) == pc[p] \in {"idle", "done", "failed", "error"}

\* lines 19-26: the GROUP BY query
SelectUsers(p) ==
  /\ Idle(p)
  /\ \E us \in Orderings(HavingCount(table)) : users' = [users EXCEPT ![p] = us]
  /\ pc' = [pc EXCEPT ![p] = "loop"]
  /\ last_record_to_keep' = [last_record_to_keep EXCEPT ![p] = <<>>]
  /\ UNCHANGED table

\* lines 28-36: the next user of the loop and its boundary lookup
Lookup(p) ==
  /\ pc[p] = "loop"
  /\ users[p] # <<>>
  /\ last_record_to_keep' =
       [last_record_to_keep EXCEPT ![p] = GetAllBoundary(table, Head(users[p]))]
  /\ pc' = [pc EXCEPT ![p] = "delete"]
  /\ UNCHANGED <<table, users>>

\* lines 38-41: last_record_to_keep[0] and the delete; an empty list raises
\* IndexError, which ends the run (its locals are gone)
Delete(p) ==
  /\ pc[p] = "delete"
  /\ IF last_record_to_keep[p] = <<>>
     THEN /\ pc' = [pc EXCEPT ![p] = "error"]
          /\ users' = [users EXCEPT ![p] = <<>>]
          /\ UNCHANGED table
     ELSE /\ table' = DbDelete(table, Head(users[p]), last_record_to_keep[p][1])
          /\ users' = [users EXCEPT ![p] = Tail(users[p])]
          /\ pc' = [pc EXCEPT ![p] = "loop"]
  /\ last_record_to_keep' = [last_record_to_keep EXCEPT ![p] = <<>>]

\* the loop is exhausted: the function returns
Return(p) ==
  /\ pc[p] = "loop"
  /\ users[p] = <<>>
  /\ pc' = [pc EXCEPT ![p] = "done"]
  /\ UNCHANGED <<table, users, last_record_to_keep>>

\* a database error in one of the statements propagates to the scheduler,
\* which keeps the deletes made so far or rolls the transaction back
DbError(p) ==
  /\ pc[p] \in {"loop", "delete"}
  /\ pc' = [pc EXCEPT ![p] = "failed"]
  /\ \E rollback \in BOOLEAN : table' = IF rollback THEN startTable ELSE table
  /\ users' = [users EXCEPT ![p] = <<>>]
  /\ last_record_to_keep' = [last_record_to_keep EXCEPT ![p] = <<>>]

\* a Route History row of user u with modified = t is inserted by another request
Insert(u, t) ==
  /\ table[u][t] < MaxTies
  /\ table' = [table EXCEPT ![u][t] = @ + 1]
  /\ UNCHANGED <<pc, users, last_record_to_keep>>

EmptyTable == [u \in Users |-> [t \in Times |-> 0]]

\* no run of the job, no row
FlushQuiet ==
  /\ table = EmptyTable
  /\ pc = [p \in Runs |-> "idle"]
  /\ users = [p \in Runs |-> <<>>]
  /\ last_record_to_keep = [p \in Runs |-> <<>>]
  /\ startTable = EmptyTable
  /\ origTable = EmptyTable
  /\ prevRun = "none"
  /\ before = "none"

FlushInit ==
  /\ table \in Tables
  /\ pc = [p \in Runs |-> "idle"]
  /\ users = [p \in Runs |-> <<>>]
  /\ last_record_to_keep = [p \in Runs |-> <<>>]
  /\ startTable = table
  /\ origTable = table
  /\ prevRun = "none"
  /\ before = "none"

(* The scheduler runs the job again and again, one run at a time, and no row *)
(* is inserted: the run is run 1, and what each run started from and how it  *)
(* ended is recorded.                                                         *)
RunStarts ==
  /\ startTable' = table
  /\ origTable' = IF prevRun = "none" THEN table ELSE origTable
  /\ before' = prevRun
  /\ UNCHANGED prevRun

RunEnds(how) ==
  /\ prevRun' = how
  /\ UNCHANGED <<startTable, origTable, before>>

Init == FlushInit /\ InsertQuiet /\ JinjaQuiet

Next ==
  \/ SelectUsers(1) /\ RunStarts /\ UNCHANGED nonFlushVars
  \/ Lookup(1) /\ UNCHANGED <<historyVars, nonFlushVars>>
  \/ Delete(1) /\ UNCHANGED <<historyVars, nonFlushVars>>
  \/ Return(1) /\ RunEnds("completed") /\ UNCHANGED nonFlushVars
  \/ DbError(1) /\ RunEnds("aborted") /\ UNCHANGED nonFlushVars

Spec == Init /\ [][Next]_vars

(* Two runs of the job and the requests that insert rows, interleaved statement *)
(* by statement.                                                               *)
NextConc ==
  \/ \E p \in Runs : SelectUsers(p) /\ UNCHANGED <<historyVars, nonFlushVars>>
  \/ \E p \in Runs : Lookup(p) /\ UNCHANGED <<historyVars, nonFlushVars>>
  \/ \E p \in Runs : Delete(p) /\ UNCHANGED <<historyVars, nonFlushVars>>
  \/ \E p \in Runs : Return(p) /\ UNCHANGED <<historyVars, nonFlushVars>>
  \/ \E u \in Users, t \in Times : Insert(u, t) /\ UNCHANGED <<historyVars, nonFlushVars>>

InitConc == FlushQuiet /\ InsertQuiet /\ JinjaQuiet

SpecConc == InitConc /\ [][NextConc]_vars

(* A request to the whitelisted method. *)
InitInsert == Request /\ FlushQuiet /\ JinjaQuiet

NextInsert == DeferredInsertRouteHistory /\ UNCHANGED nonInsertVars

SpecInsert == InitInsert /\ [][NextInsert]_vars

(* A call of resolve_class with any class value. *)
InitClass ==
  /\ FlushQuiet /\ InsertQuiet /\ EnvQuiet
  /\ \E classes \in ClassValues : call = [op |-> "resolve_class", classes |-> classes]
  /\ result = Pending
  /\ engine_ops = <<>>
  /\ parsed = NotParsed

NextClass == CallResolveClass /\ UNCHANGED nonJinjaVars

SpecClass == InitClass /\ [][NextClass]_vars

(* A call of render_template with any template, in a process that has not built *)
(* its environment yet.                                                          *)
InitRender ==
  /\ FlushQuiet /\ InsertQuiet /\ EnvQuiet
  /\ call \in RenderTemplateCalls(Templates)
  /\ result = Pending
  /\ engine_ops = <<>>
  /\ parsed = NotParsed

NextRender == CallRenderTemplate /\ UNCHANGED nonJinjaVars

SpecRender == InitRender /\ [][NextRender]_vars

(* A call of component with any source and any behaviour of Frontmatter.read. *)
InitComponent ==
  /\ FlushQuiet /\ InsertQuiet /\ EnvQuiet
  /\ call \in ComponentCalls(ComponentSources)
  /\ result = Pending
  /\ engine_ops = <<>>
  /\ parsed = NotParsed

NextComponent == CallComponent /\ UNCHANGED nonJinjaVars

SpecComponent == InitComponent /\ [][NextComponent]_vars

(* A process, from its start, under any site configuration, making calls of *)
(* the functions of jinja.py one after the other.                           *)
InitEnv ==
  /\ FlushQuiet /\ InsertQuiet
  /\ site \in Sites
  /\ local = FreshLocal
  /\ constructed = [jenv |-> 0, jloader |-> 0, calls |-> 0]
  /\ call = NoCall
  /\ result = Pending
  /\ engine_ops = <<>>
  /\ parsed = NotParsed

NextEnv ==
  \/ StartCall /\ UNCHANGED nonJinjaVars
  \/ CallRenderTemplate /\ UNCHANGED nonJinjaVars
  \/ CallValidateTemplate /\ UNCHANGED nonJinjaVars
  \/ CallGetTemplate /\ UNCHANGED nonJinjaVars
  \/ CallGetEmailFromTemplate /\ UNCHANGED nonJinjaVars
  \/ CallComponent /\ UNCHANGED nonJinjaVars
  \/ CallInspect /\ UNCHANGED nonJinjaVars

SpecEnv == InitEnv /\ [][NextEnv]_vars

--------------------------------------------------------------------------
(* Route History retention: the claims *)

\* the users the finished run found with more than the limit of rows
OverLimitAtStart(u) == CountRows(startTable, u) > records_to_keep_limit

\* rows of u with modified = t that the run deleted
Deleted(u, t) == startTable[u][t] - table[u][t]

\* C1: when a run has completed, every user who had more than the limit of rows
\* before it has at most the limit left, and every remaining row of that user has
\* a modified time >= that of every deleted row of that user.
C1_AtMostLimitNewestKept ==
  pc[1] = "done" =>
    \A u \in Users : OverLimitAtStart(u) =>
      /\ CountRows(table, u) <= records_to_keep_limit
      /\ \A kept, gone \in Times :
            (table[u][kept] > 0 /\ Deleted(u, gone) > 0) => kept >= gone

C1_Witness ==
  /\ pc[1] = "done"
  /\ \E u \in Users :
       /\ OverLimitAtStart(u)
       /\ \E kept, gone \in Times : table[u][kept] > 0 /\ Deleted(u, gone) > 0

\* the modified time of u's n-th most recent row when the run started
NthMostRecent(u, n) == OrderByModifiedDesc(startTable, u)[n]

\* the run deleted exactly the rows of u with modified <= boundary
DeletedExactlyUpTo(u, boundary) ==
  \A t \in Times : table[u][t] = IF t <= boundary THEN 0 ELSE startTable[u][t]

\* C2 as stated: a completed run deleted, for every user over the limit, exactly
\* the rows at or before the modified time of the user's 500th-most-recent row.
C2_Original_500thRow ==
  pc[1] = "done" =>
    \A u \in Users : OverLimitAtStart(u) =>
      DeletedExactlyUpTo(u, NthMostRecent(u, records_to_keep_limit))

\* C2 amended: a completed run deleted, for every user over the limit, exactly the
\* rows at or before the modified time of the user's 501st-most-recent row (ties at
\* that timestamp included), and no other row of that user.
C2_DeletesUpTo501stRow ==
  pc[1] = "done" =>
    \A u \in Users : OverLimitAtStart(u) =>
      DeletedExactlyUpTo(u, NthMostRecent(u, records_to_keep_limit + 1))

\* a user whose rows tie at the boundary timestamp lost more than the excess
C2_Witness ==
  /\ pc[1] = "done"
  /\ \E u \in Users :
       /\ OverLimitAtStart(u)
       /\ CountRows(table, u) < records_to_keep_limit
       /\ CountRows(table, u) > 0

\* C3: the rows of every user who had the limit of rows or fewer when the run
\* started are unchanged at every point of the run, whatever their modified time.
C3_SmallUsersUntouched ==
  \A u \in Users : ~OverLimitAtStart(u) => table[u] = startTable[u]

\* a run deleted rows of one user while another user, under the limit, keeps a row
\* that is no newer than a deleted one
C3_Witness ==
  /\ pc[1] = "done"
  /\ \E u, v \in Users :
       /\ ~OverLimitAtStart(u)
       /\ OverLimitAtStart(v)
       /\ \E t, gone \in Times : table[u][t] > 0 /\ Deleted(v, gone) > 0 /\ t <= gone

\* C4: with no row inserted in between, a run that follows a completed run deletes
\* nothing and ends normally, and a run that completes after any number of aborted
\* runs leaves the table a single uninterrupted run leaves of the original table.
C4_RerunIdempotent ==
  /\ before = "completed" => (table = startTable /\ pc[1] # "error")
  /\ pc[1] = "done" => table \in FlushResults(origTable)

\* a run completed after an aborted run that had already deleted some rows
C4_Witness ==
  /\ pc[1] = "done"
  /\ before = "aborted"
  /\ startTable # origTable
  /\ table # startTable

\* C10 as stated: whenever a run reaches the access last_record_to_keep[0], the
\* boundary lookup has returned a row.
C10_BoundaryRowFound ==
  \A p \in Runs : pc[p] = "delete" => last_record_to_keep[p] # <<>>

--------------------------------------------------------------------------
(* Deferred log writer: the claims *)

\* C7: a handled call has made exactly one deferred_insert call, for table
\* "Route History", whose payload decodes to one record per entry sent, in the
\* order sent, each with exactly the fields user (the session user), route and
\* creation (those of the entry, None when the entry has none).
C7_OneCallSessionUser ==
  deferred_calls # <<>> =>
    /\ Len(deferred_calls) = 1
    /\ deferred_calls[1].doctype = "Route History"
    /\ LET payload == JsonLoads(deferred_calls[1].records)
       IN  /\ Len(payload) = Len(sent)
           /\ \A i \in 1..Len(sent) :
                /\ DOMAIN payload[i] = {"user", "route", "creation"}
                /\ payload[i]["user"] = Str(session_user)
                /\ payload[i]["route"] = Get(sent[i], "route")
                /\ payload[i]["creation"] = Get(sent[i], "creation")

\* a JSON call of two different entries, the first naming another user than the
\* session's and lacking a creation
C7_Witness ==
  /\ deferred_calls # <<>>
  /\ IsStr(routes)
  /\ Len(sent) = 2
  /\ sent[1] # sent[2]
  /\ "user" \in DOMAIN sent[1]
  /\ sent[1]["user"] # Str(session_user)
  /\ "creation" \notin DOMAIN sent[1]

--------------------------------------------------------------------------
(* resolve_class: the claims *)

\* the parts to join, when the value is a list, a tuple or a mapping: the resolved
\* elements, or the keys with a truthy value
PartsToJoin(classes) ==
  IF classes.t = "dict"
    THEN SelectSeq([i \in 1..Len(classes.v) |->
                      IF Truthy(classes.v[i][2]) THEN classes.v[i][1] ELSE PyNone],
                   LAMBDA k : k.t # "None")
  ELSE [i \in 1..Len(classes.v) |-> resolve_class(classes.v[i])]

\* the parts set side by side with one space between two neighbours
RECURSIVE SpaceSeparated(_)
SpaceSeparated(parts) ==
  IF Len(parts) = 0 THEN <<>>
  ELSE IF Len(parts) = 1 THEN parts[1].v
  ELSE SpaceSeparated(SubSeq(parts, 1, Len(parts) - 1)) \o <<" ">> \o parts[Len(parts)].v

\* text without its leading and trailing whitespace
Trimmed(text) ==
  LET inked == {i \in 1..Len(text) : text[i] \notin Whitespace}
  IN  IF inked = {} THEN <<>>
      ELSE SubSeq(text, CHOOSE i \in inked : \A j \in inked : i <= j,
                        CHOOSE i \in inked : \A j \in inked : i >= j)

AllStrings(parts) == \A i \in 1..Len(parts) : parts[i].t = "str"

Resolved == call.op = "resolve_class" /\ result.kind # "pending"

Container(classes) == classes.t \in {"list", "tuple", "dict"}

\* C8 as stated: resolve_class returns "" for None, a string itself, any other
\* scalar unchanged, and for a list, tuple or mapping the space-separated join of
\* the resolved elements, or of the keys with a truthy value.
C8_Original_PlainJoin ==
  Resolved =>
    /\ result.kind = "return"
    /\ call.classes.t = "None" => result.value = PyStr(<<>>)
    /\ ~Container(call.classes) /\ call.classes.t # "None" => result.value = call.classes
    /\ (Container(call.classes) /\ AllStrings(PartsToJoin(call.classes))) =>
         result.value = PyStr(SpaceSeparated(PartsToJoin(call.classes)))

\* C8 amended: as stated, except that the join of a list, tuple or mapping is
\* returned with its leading and trailing whitespace stripped, and that the call
\* raises TypeError when an element resolves to, or a truthy key is, something
\* other than a string.
C8_JoinStrippedOrTypeError ==
  Resolved =>
    /\ call.classes.t = "None" => result = Outcome(PyStr(<<>>))
    /\ ~Container(call.classes) /\ call.classes.t # "None" =>
         result = Outcome(call.classes)
    /\ Container(call.classes) =>
         IF AllStrings(PartsToJoin(call.classes))
           THEN result = Outcome(PyStr(Trimmed(SpaceSeparated(PartsToJoin(call.classes)))))
           ELSE result = Outcome(PyRaise("TypeError"))

\* a list holding a list and a mapping with a truthy value was resolved to a
\* string that is not the plain join of its parts
C8_Witness ==
  /\ Resolved
  /\ result.kind = "return"
  /\ call.classes.t = "list"
  /\ \E i, j \in 1..Len(call.classes.v) :
       /\ call.classes.v[i].t = "list"
       /\ call.classes.v[j].t = "dict"
       /\ \E m \in 1..Len(call.classes.v[j].v) : Truthy(call.classes.v[j].v[m][2])
  /\ result.value # PyStr(SpaceSeparated(PartsToJoin(call.classes)))

--------------------------------------------------------------------------
(* render_template: the claims *)

Rendering == call.op = "render_template" /\ result.kind # "pending"

HasDunder == Contains(call.template, <<".", "_", "_">>)

IllegalTemplate == result = Raise("Illegal template") /\ engine_ops = <<>>

\* C5 as stated: every call with safe_render true and a template containing ".__"
\* fails with Illegal template, and nothing is loaded, compiled or rendered.
C5_Original_EveryCall ==
  (Rendering /\ call.safe_render /\ HasDunder) => IllegalTemplate

\* C5 amended: every call with safe_render true, is_path not set and a template that
\* contains ".__" and that guess_is_path does not take for a path fails with Illegal
\* template, and nothing is loaded, compiled or rendered.
C5_IllegalUnlessPath ==
  (Rendering /\ call.safe_render /\ HasDunder
     /\ ~call.is_path /\ ~guess_is_path(call.template)) => IllegalTemplate

\* such a call, of a template with a dot after the ".__"
C5_Witness ==
  /\ Rendering /\ call.safe_render /\ ~call.is_path
  /\ call.template = <<".", "_", "_", ".", "p">>
  /\ IllegalTemplate

--------------------------------------------------------------------------
(* component: the claims *)

ReadFailed ==
  /\ call.op = "component"
  /\ result.kind # "pending"
  /\ call.found
  /\ StartsWith(call.source, <<"-", "-", "-">>)
  /\ call.read.raised

\* C6 as stated: when the source starts with "---" and its front matter fails to
\* parse, parse_front_matter_attrs_and_html logs the failure and returns no
\* attributes and the whole source as the body, and component() does not raise
\* TypeError but goes on to render.
C6_FailOpen ==
  ReadFailed =>
    /\ parsed.kind = "return"
    /\ parsed.attributes = <<>>
    /\ parsed.html = call.source
    /\ parsed.printed
    /\ result # Raise("TypeError")

--------------------------------------------------------------------------
(* get_jenv: the claims *)

\* registering the filters or the globals raises under this site's hooks
BuildRaises ==
  set_filters(site).raised # "" \/ get_jenv_customization(site, site.jenv_methods).raised # ""

\* C9 as stated: over any sequence of calls, the environment and its loader are
\* each constructed at most once.
C9_Original_AtMostOnce == constructed.jenv <= 1 /\ constructed.jloader <= 1

\* C9 amended: the loader is constructed at most once; the environment is
\* constructed once, by the first get_jenv call, stored with that loader and never
\* constructed again, unless registering its filters or globals raises: then no
\* environment is stored and every get_jenv call constructs another one.
C9_OnceUnlessBuildRaises ==
  /\ constructed.jloader <= 1
  /\ local.jenv.t # "None" =>
       /\ constructed.jenv = 1
       /\ local.jenv.serial = 1
       /\ local.jenv.loader = local.jloader
  /\ IF BuildRaises
       THEN local.jenv.t = "None" /\ constructed.jenv = constructed.calls
       ELSE constructed.jenv = IF constructed.calls = 0 THEN 0 ELSE 1

\* several get_jenv calls were made, the last of them by component(), and one
\* environment was constructed
C9_Witness ==
  /\ constructed.calls >= MaxGetJenvCalls
  /\ constructed.jenv = 1
  /\ local.jenv.t # "None"
  /\ call.op = "component"
  /\ result.kind = "return"

====
